---- MODULE Spec2Model ----
(***************************************************************************)
(* Capture-to-classification pipeline of the MAX78000 horse/human demo:    *)
(* camera_utils_capture (line-by-line capture with inline pixel            *)
(* conversion), the accelerator session (inference_start,                   *)
(* inference_load_input, inference_wait and the completion interrupt), the *)
(* result interpretation (arg-max, percentage) and the main loop that      *)
(* drives them in single-capture and live-feed mode.                       *)
(***************************************************************************)
EXTENDS Integers, Sequences, FiniteSets, TLC

(***************************************************************************)
(* Bounds of the model.                                                    *)
(***************************************************************************)
IMAGE_SIZE_X == 2
IMAGE_SIZE_Y == 1
INPUT_WORDS == 2
MaxW == 2
MaxH == 2
MaxCap == 3
MaxRgb == 3
MaxOverflow == 1
MaxTime == 1
MaxCaptures == 1
FifoDepth == 1

(***************************************************************************)
(* Program constants.                                                      *)
(***************************************************************************)
DATA565_SIZE == IMAGE_SIZE_X * IMAGE_SIZE_Y * 2
XorMask == 8421504
CNN_NUM_OUTPUTS == 2
FifoFullBit == 1

(***************************************************************************)
(* Fixed-width integer arithmetic of the C code.                           *)
(* TLC integers have 31 value bits; every word the program forms here is  *)
(* below 2^24, so the bit operations range over bits 0..30.               *)
(***************************************************************************)
Bit(a, i) == (a \div (2 ^ i)) % 2

RECURSIVE SumBits(_, _)
SumBits(S, i) ==
    IF i = 31 THEN 0
    ELSE (IF i \in S THEN 2 ^ i ELSE 0) + SumBits(S, i + 1)

Xor32(a, b) ==
    CHOOSE v \in { SumBits({i \in 0..30 : Bit(x, i) # Bit(y, i)}, 0) :
                   x \in {a}, y \in {b} } : TRUE
Or32(a, b) ==
    CHOOSE v \in { SumBits({i \in 0..30 : Bit(x, i) + Bit(y, i) > 0}, 0) :
                   x \in {a}, y \in {b} } : TRUE
And32(a, b) ==
    CHOOSE v \in { SumBits({i \in 0..30 : Bit(x, i) * Bit(y, i) = 1}, 0) :
                   x \in {a}, y \in {b} } : TRUE
Shl32(a, n) == (a % (2 ^ (31 - n))) * (2 ^ n)
Shr32(a, n) == a \div (2 ^ n)
U8(x)  == x % 256
U16(x) == x % 65536

(***************************************************************************)
(* PixelCodec: the packing done by camera_utils_capture and the unpacking  *)
(* done by the exporters and the ASCII preview.                            *)
(***************************************************************************)
EncodeNoXor(r, g, b) == Or32(Or32(Shl32(b, 16), Shl32(g, 8)), r)

Encode(r, g, b) == Xor32(Or32(Or32(Shl32(b, 16), Shl32(g, 8)), r), XorMask)

DecodeSwapped(word) ==
    LET pixel == Xor32(word, XorMask)
    IN  << U8(And32(pixel, 255)),
           U8(And32(Shr32(pixel, 16), 255)),
           U8(And32(Shr32(pixel, 8), 255)) >>

Decode(word) ==
    LET pixel == Xor32(word, XorMask)
    IN  << U8(And32(pixel, 255)),
           U8(And32(Shr32(pixel, 8), 255)),
           U8(And32(Shr32(pixel, 16), 255)) >>

ToRgb565(r, g, b) ==
    U16(Or32(Or32(Shl32(And32(r, 248), 8), Shl32(And32(g, 252), 3)), Shr32(b, 3)))

(***************************************************************************)
(* Sample data the camera may deliver: a line is 4 bytes per pixel,        *)
(* R, G, B and a filler byte.                                              *)
(***************************************************************************)
PixelSamples == { <<0, 0, 0, 0>>, <<255, 18, 171, 0>> }

RECURSIVE LinesOf(_)
LinesOf(n) ==
    IF n = 0 THEN { << >> }
    ELSE { l \o p : l \in LinesOf(n - 1), p \in PixelSamples }


(***************************************************************************)
(* State.                                                                  *)
(***************************************************************************)
VARIABLES
    pc,              \* position of the single thread of control
    mode,            \* "none", "single", "live" (main.c) or "harness"
    capture_count,   \* main.c capture_count
    cam_w, cam_h,    \* dimensions the camera driver was set up with
    w, h,            \* dimensions reported by camera_get_image
    row, cnt,        \* camera_utils_capture locals
    data,            \* line buffer pointer: "NULL" or "BUF"
    line,            \* the bytes read through data
    overflow_count,  \* stream statistic of the camera driver
    cam_ret,         \* status returned by camera_utils_capture
    input_buffer,    \* accelerator buffer (cnn_buffer)
    cnn_buffer_size, \* declared capacity in words
    data565,         \* display buffer (rgb565_buffer)
    rgb565_size,     \* declared capacity in bytes
    rgb565_null,     \* TRUE when rgb565_buffer == NULL
    cnn_writes,      \* indices stored through cnn_buffer in this capture
    rgb_writes,      \* offsets stored through rgb565_buffer in this capture
    row_cnt0,        \* value of cnt when the current row started
    cnn_time,        \* completion flag / elapsed time written by the ISR
    cnn_pending,     \* accelerator runs started and not yet signalled
    cnn_consumed,    \* words the accelerator took from the FIFO in this run
    fifo_count,      \* words in the FIFO
    fifo_status,     \* last value read from the FIFO status register
    load_i,          \* inference_load_input loop index
    fifo_words,      \* words written to the FIFO register by the current load
    wait_seen,       \* value of cnn_time the wait loop last tested
    sess,            \* what the current capture-to-classification cycle did
    run_state,       \* "idle", "started" or "observed": the latest run
    result,          \* inference_result_t filled by inference_wait
    prev_result,     \* the outcome of the previous interpretation
    px, packed, unpacked,  \* PixelCodec input, packed word, decoded triple
    out,             \* text written to the console by the current call
    exp_fmt,         \* which routine writes: "ppm", "hex", "base64", "ascii"
    exp_w, exp_h,    \* width and height arguments
    exp_null,        \* TRUE when the cnn_buffer argument is NULL
    exp_ratio,       \* ratio argument of the ASCII preview
    exp_pat,         \* which sample frame the buffer holds
    exp_row, exp_col,      \* loop variables row/col (y/x in the preview)
    triplet, triplet_idx,  \* serial_stream_base64 pending bytes
    line_len,        \* serial_stream_base64 characters on the current line
    printed,         \* digs and tens printed per class by inference_print_results
    inf_ret,         \* status returned by the last inference_* call
    wait_had_run,    \* TRUE when a run was in flight as inference_wait was called
    api_call,        \* the session routine called last and whether result was NULL
    src_frame,       \* the lines the camera handed over in this capture
    null_rows        \* rows of this capture read with no stream buffer

camVars == << cam_w, cam_h, w, h, row, cnt, data, line, overflow_count,
              cam_ret, input_buffer, cnn_buffer_size, data565, rgb565_size,
              rgb565_null, cnn_writes, rgb_writes, row_cnt0 >>
infVars == << cnn_time, cnn_pending, cnn_consumed, fifo_count, fifo_status,
              load_i, fifo_words, wait_seen, sess, run_state >>
resVars == << result, prev_result >>
codecVars == << px, packed, unpacked >>
appVars == << mode, capture_count >>
expVars == << out, exp_fmt, exp_w, exp_h, exp_null, exp_ratio, exp_pat,
              exp_row, exp_col, triplet, triplet_idx, line_len >>
rndVars == << printed >>
apiVars == << inf_ret, wait_had_run, api_call >>
srcVars == << src_frame, null_rows >>
extVars == << expVars, rndVars, apiVars, srcVars >>
vars == << pc, appVars, camVars, infVars, resVars, codecVars, extVars >>

EmptyResult ==
    [ softmax |-> [i \in 0..(CNN_NUM_OUTPUTS - 1) |-> 0],
      predicted_class |-> 0, confidence_percent |-> 0,
      inference_time_us |-> 0, filled |-> FALSE ]

InitCamera(cw, ch, csize, rsize, rnull) ==
    /\ cam_w = cw /\ cam_h = ch
    /\ w = 0 /\ h = 0 /\ row = 0 /\ cnt = 0
    /\ data = "NULL" /\ line = << >>
    /\ overflow_count = 0
    /\ cam_ret = "NONE"
    /\ input_buffer = [i \in 0..(csize - 1) |-> 0]
    /\ cnn_buffer_size = csize
    /\ data565 = [i \in 0..(rsize - 1) |-> 0]
    /\ rgb565_size = rsize
    /\ rgb565_null = rnull
    /\ cnn_writes = {} /\ rgb_writes = {}
    /\ row_cnt0 = 0

\* no value read yet
NoStatus == 0 - 1

NewSession ==
    [ started |-> FALSE, loaded |-> 0, observed |-> FALSE, unloaded |-> FALSE,
      notified |-> 0 ]

InitInference ==
    /\ cnn_time = 0 /\ cnn_pending = 0 /\ cnn_consumed = 0
    /\ fifo_count = 0 /\ fifo_status = NoStatus /\ load_i = 0
    /\ fifo_words = << >> /\ wait_seen = NoStatus
    /\ sess = NewSession /\ run_state = "idle"

InitResult == result = EmptyResult /\ prev_result = EmptyResult

InitCodec == px = <<0, 0, 0>> /\ packed = 0 /\ unpacked = <<0, 0, 0>>

InitExportIdle ==
    /\ out = << >> /\ exp_fmt = "none"
    /\ exp_w = 0 /\ exp_h = 0 /\ exp_null = FALSE
    /\ exp_ratio = 0 /\ exp_pat = 0
    /\ exp_row = 0 /\ exp_col = 0
    /\ triplet = <<0, 0, 0>> /\ triplet_idx = 0 /\ line_len = 0

InitExt ==
    /\ InitExportIdle
    /\ printed = << >>
    /\ inf_ret = "NONE" /\ wait_had_run = FALSE
    /\ api_call = [fn |-> "none", result_null |-> FALSE]
    /\ src_frame = << >> /\ null_rows = 0

(***************************************************************************)
(* camera_utils_capture.                                                   *)
(***************************************************************************)
CnnInBoundsOffByOne(c, size) == c <= size

CnnInBounds(c, size) == c < size

RgbInBounds(j, size, isnull) == ~isnull /\ j + 1 < size

Store(buf, i, v) == IF i \in DOMAIN buf THEN [buf EXCEPT ![i] = v] ELSE buf

\* the store of one packed pixel through cnn_buffer, when in bounds
StoreCnn(st, r, g, b) ==
    IF CnnInBounds(st.cnt, cnn_buffer_size)
    THEN [st EXCEPT !.buf = Store(st.buf, st.cnt, Encode(r, g, b)),
                    !.cw = st.cw \cup {st.cnt},
                    !.cnt = st.cnt + 1]
    ELSE st

\* the store of one RGB565 word through rgb565_buffer, when in bounds
StoreRgb(st, rgb) ==
    IF RgbInBounds(st.j, rgb565_size, rgb565_null)
    THEN [st EXCEPT !.disp = Store(Store(st.disp, st.j, And32(Shr32(rgb, 8), 255)),
                                   st.j + 1, And32(rgb, 255)),
                    !.dw = st.dw \cup {st.j, st.j + 1},
                    !.j = st.j + 2]
    ELSE st

\* the body of the pixel loop
ConvertPixel(st, r, g, b) ==
    CHOOSE s2 \in { StoreRgb(s1, rgb) : s1 \in {StoreCnn(st, r, g, b)},
                                        rgb \in {ToRgb565(r, g, b)} } : TRUE

ConvertNothing(st, k, ln, width) == st

\* the loop over the pixels of one line, from byte offset k
RECURSIVE ConvertPixels(_, _, _, _)
ConvertPixels(st, k, ln, width) ==
    IF ~(k < 4 * width) THEN st
    ELSE CHOOSE res \in { ConvertPixels(s, k + 4, ln, width) :
                          s \in {ConvertPixel(st, ln[k + 1], ln[k + 2], ln[k + 3])} } : TRUE

OverflowStatusLenient(count) == IF count > 1 THEN "CAM_STATUS_OVERFLOW" ELSE "CAM_STATUS_OK"

OverflowStatus(count) == IF count > 0 THEN "CAM_STATUS_OVERFLOW" ELSE "CAM_STATUS_OK"

InCapture == pc \in {"cap_acquire", "cap_convert", "cap_release"}

\* camera_start_capture_image and camera_get_image
CaptureStart ==
    /\ pc = "cap_start"
    /\ w' = cam_w /\ h' = cam_h
    /\ row' = 0 /\ cnt' = 0 /\ row_cnt0' = 0
    /\ data' = "NULL" /\ line' = << >>
    /\ overflow_count' = 0
    /\ cnn_writes' = {} /\ rgb_writes' = {}
    /\ pc' = IF 0 < cam_h THEN "cap_acquire" ELSE "cap_check"
    /\ UNCHANGED << cam_w, cam_h, cam_ret, input_buffer, cnn_buffer_size,
                    data565, rgb565_size, rgb565_null >>
    /\ UNCHANGED << appVars, infVars, resVars, codecVars >>
    /\ src_frame' = << >> /\ null_rows' = 0
    /\ UNCHANGED << expVars, rndVars, apiVars >>

\* the polling loop: a stream buffer became available
CaptureAcquireLine ==
    /\ pc = "cap_acquire"
    /\ \E l \in LinesOf(w) : line' = l /\ src_frame' = Append(src_frame, l)
    /\ data' = "BUF"
    /\ pc' = "cap_convert"
    /\ UNCHANGED << cam_w, cam_h, w, h, row, cnt, overflow_count, cam_ret,
                    input_buffer, cnn_buffer_size, data565, rgb565_size,
                    rgb565_null, cnn_writes, rgb_writes, row_cnt0 >>
    /\ UNCHANGED << appVars, infVars, resVars, codecVars >>
    /\ UNCHANGED << null_rows, expVars, rndVars, apiVars >>

\* the polling loop: no buffer, and camera_is_image_rcv() breaks the loop;
\* the bytes later read through the NULL pointer are whatever lies there
CaptureAcquireNull ==
    /\ pc = "cap_acquire"
    /\ \E l \in LinesOf(w) : line' = l
    /\ data' = "NULL"
    /\ pc' = "cap_convert"
    /\ UNCHANGED << cam_w, cam_h, w, h, row, cnt, overflow_count, cam_ret,
                    input_buffer, cnn_buffer_size, data565, rgb565_size,
                    rgb565_null, cnn_writes, rgb_writes, row_cnt0 >>
    /\ UNCHANGED << appVars, infVars, resVars, codecVars >>
    /\ src_frame' = Append(src_frame, << >>) /\ null_rows' = null_rows + 1
    /\ UNCHANGED << expVars, rndVars, apiVars >>

\* the loop over the pixels of the line
CaptureConvertRow ==
    /\ pc = "cap_convert"
    /\ \E st \in { ConvertPixels([buf |-> input_buffer, cnt |-> cnt,
                                    disp |-> data565, j |-> 0,
                                    cw |-> cnn_writes, dw |-> rgb_writes],
                                   0, line, w) } :
           /\ input_buffer' = st.buf
           /\ cnt' = st.cnt
           /\ data565' = st.disp
           /\ cnn_writes' = st.cw
           /\ rgb_writes' = st.dw
    /\ row_cnt0' = cnt
    /\ pc' = "cap_release"
    /\ UNCHANGED << cam_w, cam_h, w, h, row, data, line, overflow_count,
                    cam_ret, cnn_buffer_size, rgb565_size, rgb565_null >>
    /\ UNCHANGED << appVars, infVars, resVars, codecVars >>
    /\ UNCHANGED extVars

\* release_camera_stream_buffer and the row loop's increment and test
CaptureReleaseRow ==
    /\ pc = "cap_release"
    /\ row' = row + 1
    /\ data' = "NULL" /\ line' = << >>
    /\ pc' = IF row + 1 < h THEN "cap_acquire" ELSE "cap_check"
    /\ UNCHANGED << cam_w, cam_h, w, h, cnt, overflow_count, cam_ret,
                    input_buffer, cnn_buffer_size, data565, rgb565_size,
                    rgb565_null, cnn_writes, rgb_writes, row_cnt0 >>
    /\ UNCHANGED << appVars, infVars, resVars, codecVars >>
    /\ UNCHANGED extVars

\* the camera driver loses data while the image is streamed
CameraOverflow ==
    /\ InCapture
    /\ overflow_count < MaxOverflow
    /\ overflow_count' = overflow_count + 1
    /\ UNCHANGED << cam_w, cam_h, w, h, row, cnt, data, line, cam_ret,
                    input_buffer, cnn_buffer_size, data565, rgb565_size,
                    rgb565_null, cnn_writes, rgb_writes, row_cnt0 >>
    /\ UNCHANGED << pc, appVars, infVars, resVars, codecVars >>
    /\ UNCHANGED extVars

\* get_camera_stream_statistic and the return
CaptureCheckOverflow ==
    /\ pc = "cap_check"
    /\ cam_ret' = OverflowStatus(overflow_count)
    /\ pc' = "cap_ret"
    /\ UNCHANGED << cam_w, cam_h, w, h, row, cnt, data, line, overflow_count,
                    input_buffer, cnn_buffer_size, data565, rgb565_size,
                    rgb565_null, cnn_writes, rgb_writes, row_cnt0 >>
    /\ UNCHANGED << appVars, infVars, resVars, codecVars >>
    /\ UNCHANGED extVars

CaptureStep ==
    \/ CaptureStart
    \/ CaptureAcquireLine
    \/ CaptureAcquireNull
    \/ CaptureConvertRow
    \/ CaptureReleaseRow
    \/ CameraOverflow
    \/ CaptureCheckOverflow

(***************************************************************************)
(* camera_utils_capture on its own, for every reported frame size and      *)
(* every declared capacity.                                                *)
(***************************************************************************)
InitCapture ==
    /\ pc = "cap_start"
    /\ mode = "harness"
    /\ capture_count = 0
    /\ \E cw \in 0..MaxW, ch \in 0..MaxH, cs \in 0..MaxCap, rs \in 0..MaxRgb,
          rn \in BOOLEAN : InitCamera(cw, ch, cs, rs, rn)
    /\ InitInference /\ InitResult /\ InitCodec /\ InitExt

NextCapture == CaptureStep

SpecCapture == InitCapture /\ [][NextCapture]_vars


(***************************************************************************)
(* ResultInterpreter: the tail of inference_wait.                          *)
(***************************************************************************)
IsNewLeaderOrEqual(v, max_val) == v >= max_val

IsNewLeader(v, max_val) == v > max_val

\* the arg-max loop from index i with the current leader
RECURSIVE FindMax(_, _, _, _)
FindMax(softmax, i, max_idx, max_val) ==
    IF ~(i < CNN_NUM_OUTPUTS) THEN [max_idx |-> max_idx, max_val |-> max_val]
    ELSE IF IsNewLeader(softmax[i], max_val)
         THEN FindMax(softmax, i + 1, i, softmax[i])
         ELSE FindMax(softmax, i + 1, max_idx, max_val)

ConfidencePercent16(max_val) == ((max_val * 100) % 65536) \div 32768

ConfidencePercent(max_val) == (max_val * 100) \div 32768

Interpret(softmax, time_us) ==
    LET m == FindMax(softmax, 1, 0, softmax[0])
    IN  [ softmax |-> softmax,
          predicted_class |-> m.max_idx,
          confidence_percent |-> ConfidencePercent(m.max_val),
          inference_time_us |-> time_us,
          filled |-> TRUE ]

(***************************************************************************)
(* AcceleratorSession: inference_start, inference_load_input,              *)
(* inference_wait, the accelerator and its completion interrupt.           *)
(***************************************************************************)
SoftmaxOut == { <<16384, 16384>>, <<100, 32667>> }

Vec(t) == [i \in 0..(CNN_NUM_OUTPUTS - 1) |-> t[i + 1]]

FifoNotFullAlways(status) == TRUE

FifoNotFull(status) == And32(status, FifoFullBit) = 0

WaitLoopCondNever(t) == FALSE

WaitLoopCond(t) == t = 0

\* inference_start: cnn_time = 0
InferenceReset ==
    /\ pc = "inf_reset"
    /\ cnn_time' = 0
    /\ pc' = "inf_cnn_start"
    /\ UNCHANGED << cnn_pending, cnn_consumed, fifo_count, fifo_status,
                    load_i, fifo_words, wait_seen, sess, run_state >>
    /\ UNCHANGED << appVars, camVars, resVars, codecVars >>
    /\ UNCHANGED extVars

\* inference_start: cnn_start(); the caller then enters inference_load_input
InferenceCnnStart ==
    /\ pc = "inf_cnn_start"
    /\ cnn_pending' = cnn_pending + 1
    /\ cnn_consumed' = 0
    /\ sess' = [sess EXCEPT !.started = TRUE]
    /\ run_state' = "started"
    /\ load_i' = 0
    /\ fifo_words' = << >>
    /\ fifo_status' = NoStatus
    /\ pc' = IF mode = "api"
             THEN (IF api_call.fn = "inference_run" THEN "wait_test" ELSE "api_idle")
             ELSE IF 0 < INPUT_WORDS THEN "load_poll" ELSE "wait_test"
    /\ UNCHANGED << cnn_time, fifo_count, wait_seen >>
    /\ UNCHANGED << appVars, camVars, resVars, codecVars >>
    /\ UNCHANGED extVars

\* inference_load_input: one read of the FIFO status register
LoadPoll ==
    /\ pc = "load_poll"
    /\ LET status == IF fifo_count >= FifoDepth THEN 1 ELSE 0
       IN  /\ fifo_status' = status
           /\ pc' = IF FifoNotFull(status) THEN "load_write" ELSE "load_poll"
    /\ UNCHANGED << cnn_time, cnn_pending, cnn_consumed, fifo_count, load_i,
                    fifo_words, wait_seen, sess, run_state >>
    /\ UNCHANGED << appVars, camVars, resVars, codecVars >>
    /\ UNCHANGED extVars

\* inference_load_input: the write to the FIFO register, i++ and the loop test
LoadWrite ==
    /\ pc = "load_write"
    /\ fifo_count' = fifo_count + 1
    /\ fifo_words' = Append(fifo_words, input_buffer[load_i])
    /\ load_i' = load_i + 1
    /\ sess' = [sess EXCEPT !.loaded = sess.loaded + 1]
    /\ fifo_status' = NoStatus
    /\ pc' = IF load_i + 1 < INPUT_WORDS THEN "load_poll"
             ELSE IF mode = "api" THEN "api_idle" ELSE "wait_test"
    /\ UNCHANGED << cnn_time, cnn_pending, cnn_consumed, wait_seen, run_state >>
    /\ UNCHANGED << appVars, camVars, resVars, codecVars >>
    /\ UNCHANGED extVars

\* the running accelerator takes a word from the FIFO
CnnConsume ==
    /\ cnn_pending > 0
    /\ fifo_count > 0
    /\ fifo_count' = fifo_count - 1
    /\ cnn_consumed' = cnn_consumed + 1
    /\ UNCHANGED << cnn_time, cnn_pending, fifo_status, load_i, fifo_words,
                    wait_seen, sess, run_state >>
    /\ UNCHANGED << pc, appVars, camVars, resVars, codecVars >>
    /\ UNCHANGED extVars

\* the completion interrupt: the ISR stores the elapsed time in cnn_time
\* and the core, if it sleeps in WFI, wakes up
CnnIsr ==
    /\ cnn_pending > 0
    /\ cnn_consumed >= INPUT_WORDS
    /\ \E t \in 1..MaxTime : cnn_time' = t /\ sess' = [sess EXCEPT !.notified = t]
    /\ cnn_pending' = cnn_pending - 1
    /\ pc' = IF pc = "asleep" THEN "wait_test" ELSE pc
    /\ UNCHANGED << cnn_consumed, fifo_count, fifo_status, load_i, fifo_words,
                    wait_seen, run_state >>
    /\ UNCHANGED << appVars, camVars, resVars, codecVars >>
    /\ UNCHANGED extVars

\* inference_wait: the test of the wait loop
WaitTest ==
    /\ pc = "wait_test"
    /\ wait_seen' = cnn_time
    /\ IF WaitLoopCond(cnn_time)
       THEN /\ pc' = "wfi"
            /\ UNCHANGED << sess, run_state >>
       ELSE /\ pc' = "wait_unload"
            /\ sess' = [sess EXCEPT !.observed = (cnn_time # 0)]
            /\ run_state' = IF cnn_time # 0 THEN "observed" ELSE run_state
    /\ UNCHANGED << cnn_time, cnn_pending, cnn_consumed, fifo_count,
                    fifo_status, load_i, fifo_words >>
    /\ UNCHANGED << appVars, camVars, resVars, codecVars >>
    /\ UNCHANGED extVars

\* inference_wait: the WFI instruction puts the core to sleep
Wfi ==
    /\ pc = "wfi"
    /\ pc' = "asleep"
    /\ UNCHANGED << appVars, camVars, infVars, resVars, codecVars >>
    /\ UNCHANGED extVars

\* an interrupt other than the accelerator's wakes the core
SpuriousWake ==
    /\ pc = "asleep"
    /\ pc' = "wait_test"
    /\ UNCHANGED << appVars, camVars, infVars, resVars, codecVars >>
    /\ UNCHANGED extVars

\* inference_wait after the loop: elapsed time, cnn_unload, softmax,
\* arg-max, percentage, return INFERENCE_OK
WaitUnload ==
    /\ pc = "wait_unload"
    /\ \E sm \in SoftmaxOut : result' = Interpret(Vec(sm), cnn_time)
    /\ sess' = [sess EXCEPT !.unloaded = TRUE]
    /\ inf_ret' = "INFERENCE_OK"
    /\ pc' = IF mode = "single" THEN "sc_report"
             ELSE IF mode = "api" THEN "api_idle" ELSE "lf_show"
    /\ UNCHANGED << cnn_time, cnn_pending, cnn_consumed, fifo_count,
                    fifo_status, load_i, fifo_words, wait_seen, run_state >>
    /\ UNCHANGED << prev_result, appVars, camVars, codecVars >>
    /\ UNCHANGED << wait_had_run, api_call, expVars, rndVars, srcVars >>

InferenceStep ==
    \/ InferenceReset
    \/ InferenceCnnStart
    \/ LoadPoll
    \/ LoadWrite
    \/ CnnConsume
    \/ CnnIsr
    \/ WaitTest
    \/ Wfi
    \/ SpuriousWake
    \/ WaitUnload

(***************************************************************************)
(* ResultInterpreter on its own, over sampled probability vectors.         *)
(***************************************************************************)
QSamples == {0, 1, 327, 328, 16384, 32767}

InitInterp ==
    /\ pc = "interp"
    /\ mode = "harness"
    /\ capture_count = 0
    /\ InitCamera(0, 0, 0, 0, TRUE)
    /\ InitInference /\ InitResult /\ InitCodec /\ InitExt

\* the tail of inference_wait applied to one softmax output
InterpRun ==
    /\ pc = "interp"
    /\ \E a \in QSamples, b \in QSamples :
           result' = Interpret(Vec(<<a, b>>), 1)
    /\ prev_result' = result
    /\ UNCHANGED << pc, appVars, camVars, infVars, codecVars >>
    /\ UNCHANGED extVars

NextInterp == InterpRun

SpecInterp == InitInterp /\ [][NextInterp]_vars

(***************************************************************************)
(* PixelCodec on its own, over sampled byte triples.                       *)
(***************************************************************************)
ByteSamples == {0, 1, 18, 127, 128, 171, 255}

InitCodecSpec ==
    /\ pc = "codec_encode"
    /\ mode = "harness"
    /\ capture_count = 0
    /\ InitCamera(0, 0, 0, 0, TRUE)
    /\ InitInference /\ InitResult /\ InitExt
    /\ px \in ByteSamples \X ByteSamples \X ByteSamples
    /\ packed = 0 /\ unpacked = <<0, 0, 0>>

\* the capture encoder packs the sample
CodecEncode ==
    /\ pc = "codec_encode"
    /\ packed' = Encode(px[1], px[2], px[3])
    /\ pc' = "codec_decode"
    /\ UNCHANGED << px, unpacked, appVars, camVars, infVars, resVars >>
    /\ UNCHANGED extVars

\* an exporter or the preview unpacks the word
CodecDecode ==
    /\ pc = "codec_decode"
    /\ unpacked' = Decode(packed)
    /\ pc' = "codec_done"
    /\ UNCHANGED << px, packed, appVars, camVars, infVars, resVars >>
    /\ UNCHANGED extVars

NextCodec == CodecEncode \/ CodecDecode

SpecCodec == InitCodecSpec /\ [][NextCodec]_vars

(***************************************************************************)
(* The one-decimal rounding of inference_print_results (and of the TFT    *)
(* lines of main.c) next to the percentage of inference_wait, for every   *)
(* Q15 value of the winning class.                                         *)
(***************************************************************************)
DisplayDigs(v) == (1000 * v + 16384) \div 32768

PrintDigitsNoSplit(v) == [digs |-> DisplayDigs(v), tens |-> DisplayDigs(v) % 10]

PrintDigits(v) == [digs |-> DisplayDigs(v) \div 10, tens |-> DisplayDigs(v) % 10]

InitRound ==
    /\ pc = "round_wait"
    /\ mode = "harness"
    /\ capture_count = 0
    /\ InitCamera(0, 0, 0, 0, TRUE)
    /\ InitInference /\ InitResult /\ InitCodec /\ InitExt

\* the tail of inference_wait, the winning class holding any Q15 value
RoundInterpret ==
    /\ pc = "round_wait"
    /\ \E v \in 0..32767 : result' = Interpret(Vec(<<v, 0>>), 1)
    /\ pc' = "round_print"
    /\ UNCHANGED << prev_result, appVars, camVars, infVars, codecVars, extVars >>

\* inference_print_results: the loop over the classes
RoundPrint ==
    /\ pc = "round_print"
    /\ printed' = [i \in 0..(CNN_NUM_OUTPUTS - 1) |-> PrintDigits(result.softmax[i])]
    /\ pc' = "round_done"
    /\ UNCHANGED << appVars, camVars, infVars, resVars, codecVars, expVars,
                    apiVars, srcVars >>

NextRound == RoundInterpret \/ RoundPrint

SpecRound == InitRound /\ [][NextRound]_vars

(***************************************************************************)
(* Console text.  What printf and putchar write is kept as a sequence of  *)
(* tokens: one token per character of a converted number or of an encoded *)
(* group, one token per line break, one token per literal word.            *)
(***************************************************************************)
MaxExpW == 19
MaxExpH == 2
MaxRatio == 2

DecDigits == << "0", "1", "2", "3", "4", "5", "6", "7", "8", "9" >>

HexDigits == << "0", "1", "2", "3", "4", "5", "6", "7",
                "8", "9", "A", "B", "C", "D", "E", "F" >>

base64_table ==
    << "A", "B", "C", "D", "E", "F", "G", "H", "I", "J", "K", "L", "M", "N", "O", "P",
       "Q", "R", "S", "T", "U", "V", "W", "X", "Y", "Z", "a", "b", "c", "d", "e", "f",
       "g", "h", "i", "j", "k", "l", "m", "n", "o", "p", "q", "r", "s", "t", "u", "v",
       "w", "x", "y", "z", "0", "1", "2", "3", "4", "5", "6", "7", "8", "9", "+", "/" >>

BRIGHTNESS_STANDARD == << "@", "%", "#", "*", "+", "=", "-", ":", ".", " " >>

\* printf %d of a non-negative int
RECURSIVE Dec(_)
Dec(n) ==
    IF n < 10 THEN << DecDigits[n + 1] >>
    ELSE Dec(n \div 10) \o << DecDigits[(n % 10) + 1] >>

Hex2LowFirst(b) == << HexDigits[(b % 16) + 1], HexDigits[(b \div 16) + 1] >>

\* printf %02X of a byte
Hex2(b) == << HexDigits[(b \div 16) + 1], HexDigits[(b % 16) + 1] >>

(***************************************************************************)
(* Sample frames held by the buffer handed to the exporters.               *)
(***************************************************************************)
ExpPatterns == 0..2

PatPixel(pat, idx) ==
    IF pat = 0 THEN <<255, 0, 128>>
    ELSE IF pat = 1 THEN <<171, 18, 255>>
    ELSE IF idx % 4 = 0 THEN <<0, 0, 0>>
    ELSE IF idx % 4 = 1 THEN <<255, 255, 255>>
    ELSE IF idx % 4 = 2 THEN <<7, 100, 9>>
    ELSE <<77, 150, 29>>

PatFrame(pat, n) ==
    [ i \in 0..(n - 1) |->
        CHOOSE v \in { Encode(p[1], p[2], p[3]) : p \in {PatPixel(pat, i)} } : TRUE ]

IsNullBufferNever(isnull) == FALSE

IsNullBuffer(isnull) == isnull

InExport == pc \in {"exp_entry", "exp_loop", "exp_done"}

\* a caller hands a buffer, a width and a height to one of the routines
ExportCall ==
    /\ pc = "exp_idle"
    /\ \E f \in {"ppm", "hex", "base64", "ascii"}, ew \in 0..MaxExpW,
          eh \in 0..MaxExpH, en \in BOOLEAN, ep \in ExpPatterns,
          er \in 0..MaxRatio :
          /\ (f # "ascii" => er = 0)
          /\ (en => ep = 0)
          /\ exp_fmt' = f /\ exp_w' = ew /\ exp_h' = eh
          /\ exp_null' = en /\ exp_pat' = ep /\ exp_ratio' = er
          /\ input_buffer' = IF en THEN PatFrame(0, 0) ELSE PatFrame(ep, ew * eh)
    /\ out' = << >>
    /\ exp_row' = 0 /\ exp_col' = 0
    /\ triplet' = <<0, 0, 0>> /\ triplet_idx' = 0 /\ line_len' = 0
    /\ pc' = "exp_entry"
    /\ UNCHANGED << cam_w, cam_h, w, h, row, cnt, data, line, overflow_count,
                    cam_ret, cnn_buffer_size, data565, rgb565_size,
                    rgb565_null, cnn_writes, rgb_writes, row_cnt0 >>
    /\ UNCHANGED << appVars, infVars, resVars, codecVars, rndVars, apiVars,
                    srcVars >>

\* what every step of an exporter leaves alone
ExportFrame ==
    /\ UNCHANGED << exp_fmt, exp_w, exp_h, exp_null, exp_pat >>
    /\ UNCHANGED << appVars, camVars, infVars, resVars, codecVars, rndVars,
                    apiVars, srcVars >>

(***************************************************************************)
(* serial_stream_ppm.                                                      *)
(***************************************************************************)
PpmBreakBefore(col) == col % 8 = 0

PpmBreak(col) == (col + 1) % 8 = 0

\* the word read at cnn_buffer[idx]; past the end of the array the read
\* yields whatever lies there
BufferWord(buf, idx) == IF idx \in DOMAIN buf THEN {buf[idx]} ELSE {0, XorMask}

PpmPixelText(p, col) ==
    Dec(p[1]) \o << " " >> \o Dec(p[2]) \o << " " >> \o Dec(p[3]) \o << " " >>
        \o (IF PpmBreak(col) THEN << "\n" >> ELSE << >>)

\* the NULL test and the four header lines
PpmEntry ==
    /\ pc = "exp_entry" /\ exp_fmt = "ppm"
    /\ IF IsNullBuffer(exp_null)
       THEN out' = out /\ pc' = "exp_done"
       ELSE /\ out' = out \o << "P3", "\n", "# Captured from MAX78000 CNN", "\n" >>
                          \o Dec(exp_w) \o << " " >> \o Dec(exp_h)
                          \o << "\n", "255", "\n" >>
            /\ pc' = "exp_loop"
    /\ exp_row' = 0 /\ exp_col' = 0
    /\ UNCHANGED << exp_ratio, triplet, triplet_idx, line_len >>
    /\ ExportFrame

\* the body of the column loop
PpmPixel ==
    /\ pc = "exp_loop" /\ exp_fmt = "ppm"
    /\ exp_row < exp_h /\ exp_col < exp_w
    /\ \E word \in BufferWord(input_buffer, exp_row * exp_w + exp_col) :
          \E p \in { Decode(word) } : out' = out \o PpmPixelText(p, exp_col)
    /\ exp_col' = exp_col + 1
    /\ UNCHANGED << pc, exp_row, exp_ratio, triplet, triplet_idx, line_len >>
    /\ ExportFrame

\* the column loop is over: the line break of the row
PpmRowEnd ==
    /\ pc = "exp_loop" /\ exp_fmt = "ppm"
    /\ exp_row < exp_h /\ ~(exp_col < exp_w)
    /\ out' = out \o << "\n" >>
    /\ exp_row' = exp_row + 1 /\ exp_col' = 0
    /\ UNCHANGED << pc, exp_ratio, triplet, triplet_idx, line_len >>
    /\ ExportFrame

PpmReturn ==
    /\ pc = "exp_loop" /\ exp_fmt = "ppm"
    /\ ~(exp_row < exp_h)
    /\ pc' = "exp_done"
    /\ UNCHANGED << out, exp_row, exp_col, exp_ratio, triplet, triplet_idx,
                    line_len >>
    /\ ExportFrame

(***************************************************************************)
(* serial_stream_hex.                                                      *)
(***************************************************************************)
HexEntry ==
    /\ pc = "exp_entry" /\ exp_fmt = "hex"
    /\ IF IsNullBuffer(exp_null)
       THEN out' = out /\ pc' = "exp_done"
       ELSE /\ out' = out \o << "=== HEX IMAGE DATA ===", "\n", "Size: " >>
                          \o Dec(exp_w) \o << "x" >> \o Dec(exp_h) \o << "\n" >>
            /\ pc' = "exp_loop"
    /\ exp_row' = 0 /\ exp_col' = 0
    /\ UNCHANGED << exp_ratio, triplet, triplet_idx, line_len >>
    /\ ExportFrame

HexPixel ==
    /\ pc = "exp_loop" /\ exp_fmt = "hex"
    /\ exp_row < exp_h /\ exp_col < exp_w
    /\ \E p \in { Decode(input_buffer[exp_row * exp_w + exp_col]) } :
          out' = out \o Hex2(p[1]) \o Hex2(p[2]) \o Hex2(p[3])
    /\ exp_col' = exp_col + 1
    /\ UNCHANGED << pc, exp_row, exp_ratio, triplet, triplet_idx, line_len >>
    /\ ExportFrame

HexRowEnd ==
    /\ pc = "exp_loop" /\ exp_fmt = "hex"
    /\ exp_row < exp_h /\ ~(exp_col < exp_w)
    /\ out' = out \o << "\n" >>
    /\ exp_row' = exp_row + 1 /\ exp_col' = 0
    /\ UNCHANGED << pc, exp_ratio, triplet, triplet_idx, line_len >>
    /\ ExportFrame

\* the closing banner
HexReturn ==
    /\ pc = "exp_loop" /\ exp_fmt = "hex"
    /\ ~(exp_row < exp_h)
    /\ out' = out \o << "=== END HEX DATA ===", "\n" >>
    /\ pc' = "exp_done"
    /\ UNCHANGED << exp_row, exp_col, exp_ratio, triplet, triplet_idx, line_len >>
    /\ ExportFrame

(***************************************************************************)
(* serial_stream_base64.                                                   *)
(***************************************************************************)
Base64Char(i) == base64_table[i + 1]

Base64GroupSwapped(t) ==
    << Base64Char(And32(Shr32(t[1], 2), 63)),
       Base64Char(Or32(Shl32(And32(t[1], 3), 4), And32(Shr32(t[2], 4), 15))),
       Base64Char(And32(t[3], 63)),
       Base64Char(Or32(Shl32(And32(t[2], 15), 2), And32(Shr32(t[3], 6), 3))) >>

\* the four putchar calls for a full triplet
Base64Group(t) ==
    << Base64Char(And32(Shr32(t[1], 2), 63)),
       Base64Char(Or32(Shl32(And32(t[1], 3), 4), And32(Shr32(t[2], 4), 15))),
       Base64Char(Or32(Shl32(And32(t[2], 15), 2), And32(Shr32(t[3], 6), 3))),
       Base64Char(And32(t[3], 63)) >>

LineFullLate(len) == len > 76

LineFull(len) == len >= 76

\* a full triplet: the group, the reset and the line break
Base64Flush(st) ==
    LET len == st.len + 4
        o   == st.o \o Base64Group(st.t)
    IN  IF LineFull(len)
        THEN [st EXCEPT !.n = 0, !.len = 0, !.o = o \o << "\n" >>]
        ELSE [st EXCEPT !.n = 0, !.len = len, !.o = o]

\* one turn of the loop over rgb[0..2]
Base64Byte(st, byte) ==
    CHOOSE r \in { IF s.n = 3 THEN Base64Flush(s) ELSE s :
                   s \in { [st EXCEPT !.t[st.n + 1] = byte, !.n = st.n + 1] } } : TRUE

Base64PixelTwoBytes(st, p) ==
    CHOOSE r \in { Base64Byte(s1, p[2]) : s1 \in { Base64Byte(st, p[1]) } } : TRUE

Base64Pixel(st, p) ==
    CHOOSE r \in { Base64Byte(s2, p[3]) :
                   s2 \in { Base64Byte(s1, p[2]) :
                            s1 \in { Base64Byte(st, p[1]) } } } : TRUE

\* the block after the loops: a partial group is zero-filled and padded
Base64Tail(t, n) ==
    IF n > 0
    THEN LET z == [i \in 1..3 |-> IF i > n THEN 0 ELSE t[i]]
         IN  << Base64Char(And32(Shr32(z[1], 2), 63)),
                Base64Char(Or32(Shl32(And32(z[1], 3), 4), And32(Shr32(z[2], 4), 15))) >>
             \o (IF n > 1
                 THEN << Base64Char(Or32(Shl32(And32(z[2], 15), 2),
                                         And32(Shr32(z[3], 6), 3))) >>
                 ELSE << "=" >>)
             \o << "=" >>
    ELSE << >>

B64Entry ==
    /\ pc = "exp_entry" /\ exp_fmt = "base64"
    /\ IF IsNullBuffer(exp_null)
       THEN out' = out /\ pc' = "exp_done"
       ELSE /\ out' = out \o << "<<<BASE64_IMG_START>>>", "\n", "WIDTH:" >>
                          \o Dec(exp_w) \o << ",HEIGHT:" >> \o Dec(exp_h)
                          \o << "\n" >>
            /\ pc' = "exp_loop"
    /\ exp_row' = 0 /\ exp_col' = 0
    /\ triplet_idx' = 0 /\ line_len' = 0
    /\ UNCHANGED << exp_ratio, triplet >>
    /\ ExportFrame

B64Pixel ==
    /\ pc = "exp_loop" /\ exp_fmt = "base64"
    /\ exp_row < exp_h /\ exp_col < exp_w
    /\ \E st \in { Base64Pixel([t |-> triplet, n |-> triplet_idx,
                                 len |-> line_len, o |-> out],
                                Decode(input_buffer[exp_row * exp_w + exp_col])) } :
          /\ triplet' = st.t
          /\ triplet_idx' = st.n
          /\ line_len' = st.len
          /\ out' = st.o
    /\ exp_col' = exp_col + 1
    /\ UNCHANGED << pc, exp_row, exp_ratio >>
    /\ ExportFrame

B64RowEnd ==
    /\ pc = "exp_loop" /\ exp_fmt = "base64"
    /\ exp_row < exp_h /\ ~(exp_col < exp_w)
    /\ exp_row' = exp_row + 1 /\ exp_col' = 0
    /\ UNCHANGED << pc, out, exp_ratio, triplet, triplet_idx, line_len >>
    /\ ExportFrame

\* the remaining bytes and the end marker
B64Return ==
    /\ pc = "exp_loop" /\ exp_fmt = "base64"
    /\ ~(exp_row < exp_h)
    /\ out' = out \o Base64Tail(triplet, triplet_idx)
                  \o << "\n", "<<<BASE64_IMG_END>>>", "\n" >>
    /\ triplet' = [i \in 1..3 |-> IF triplet_idx > 0 /\ i > triplet_idx
                                  THEN 0 ELSE triplet[i]]
    /\ pc' = "exp_done"
    /\ UNCHANGED << exp_row, exp_col, exp_ratio, triplet_idx, line_len >>
    /\ ExportFrame

(***************************************************************************)
(* display_ascii_art_from_cnn.                                             *)
(***************************************************************************)
Luma(r, g, b) == U8(Shr32(U16(77 * r) + U16(150 * g) + U16(29 * b), 8))

AsciiGlyph(Y) ==
    LET num_chars == Len(BRIGHTNESS_STANDARD)
        char_idx  == (Y * (num_chars - 1)) \div 255
    IN  BRIGHTNESS_STANDARD[((num_chars - 1) - char_idx) + 1]

\* the NULL test and the clamp of ratio
AsciiEntry ==
    /\ pc = "exp_entry" /\ exp_fmt = "ascii"
    /\ pc' = IF IsNullBuffer(exp_null) THEN "exp_done" ELSE "exp_loop"
    /\ exp_ratio' = IF ~IsNullBuffer(exp_null) /\ exp_ratio < 1 THEN 1 ELSE exp_ratio
    /\ exp_row' = 0 /\ exp_col' = 0
    /\ UNCHANGED << out, triplet, triplet_idx, line_len >>
    /\ ExportFrame

AsciiPixel ==
    /\ pc = "exp_loop" /\ exp_fmt = "ascii"
    /\ exp_row < exp_h /\ exp_col < exp_w
    /\ \E p \in { Decode(input_buffer[exp_row * exp_w + exp_col]) } :
          out' = out \o << AsciiGlyph(Luma(p[1], p[2], p[3])) >>
    /\ exp_col' = exp_col + exp_ratio
    /\ UNCHANGED << pc, exp_row, exp_ratio, triplet, triplet_idx, line_len >>
    /\ ExportFrame

AsciiRowEnd ==
    /\ pc = "exp_loop" /\ exp_fmt = "ascii"
    /\ exp_row < exp_h /\ ~(exp_col < exp_w)
    /\ out' = out \o << "\n" >>
    /\ exp_row' = exp_row + exp_ratio * 2 /\ exp_col' = 0
    /\ UNCHANGED << pc, exp_ratio, triplet, triplet_idx, line_len >>
    /\ ExportFrame

AsciiReturn ==
    /\ pc = "exp_loop" /\ exp_fmt = "ascii"
    /\ ~(exp_row < exp_h)
    /\ pc' = "exp_done"
    /\ UNCHANGED << out, exp_row, exp_col, exp_ratio, triplet, triplet_idx,
                    line_len >>
    /\ ExportFrame

(***************************************************************************)
(* The exporters and the preview on their own, for every sample frame.     *)
(***************************************************************************)
ExportStep ==
    \/ PpmEntry \/ PpmPixel \/ PpmRowEnd \/ PpmReturn
    \/ HexEntry \/ HexPixel \/ HexRowEnd \/ HexReturn
    \/ B64Entry \/ B64Pixel \/ B64RowEnd \/ B64Return
    \/ AsciiEntry \/ AsciiPixel \/ AsciiRowEnd \/ AsciiReturn

InitExport ==
    /\ pc = "exp_idle"
    /\ mode = "harness"
    /\ capture_count = 0
    /\ InitCamera(0, 0, 0, 0, TRUE)
    /\ InitInference /\ InitResult /\ InitCodec /\ InitExt

NextExport == ExportCall \/ ExportStep

SpecExport == InitExport /\ [][NextExport]_vars

(***************************************************************************)
(* main.c: run_inference_loop, run_single_capture, run_live_feed.          *)
(***************************************************************************)
CLASS_NAMES == << "Horse", "Human" >>

\* inference_print_results; the raw accelerator output printed in brackets
\* is not part of the model and stands as one token
RECURSIVE ClassLines(_, _)
ClassLines(softmax, i) ==
    IF ~(i < CNN_NUM_OUTPUTS) THEN << >>
    ELSE << "[raw] -> ", CLASS_NAMES[i + 1], ": " >>
             \o Dec(PrintDigits(softmax[i]).digs) \o << "." >>
             \o Dec(PrintDigits(softmax[i]).tens) \o << "%", "\r\n" >>
             \o ClassLines(softmax, i + 1)

PrintResultsText(res) ==
    << "Classification results:", "\n" >> \o ClassLines(res.softmax, 0) \o << "\n" >>

\* serial_print_capture_info
CaptureInfoText(capture_id, class_name, confidence, inference_time) ==
    << "\n", "<<<RESULT>>>", "\n", "CAPTURE_ID:" >> \o Dec(capture_id)
        \o << "\n", "CLASS:", class_name, "\n", "CONFIDENCE:" >> \o Dec(confidence)
        \o << "\n", "INFERENCE_TIME_US:" >> \o Dec(inference_time)
        \o << "\n", "<<<RESULT>>>", "\n", "\n" >>

ImageStartTextNoId(width, height, capture_id) ==
    << "\n", "<<<IMG_START>>>", "\n", "WIDTH:" >> \o Dec(width)
        \o << "\n", "HEIGHT:" >> \o Dec(height)
        \o << "\n", "FORMAT:RGB888", "\n", "DATA_START", "\n" >>

\* serial_send_image_start
ImageStartText(width, height, capture_id) ==
    << "\n", "<<<IMG_START>>>", "\n", "WIDTH:" >> \o Dec(width)
        \o << "\n", "HEIGHT:" >> \o Dec(height)
        \o << "\n", "CAPTURE_ID:" >> \o Dec(capture_id)
        \o << "\n", "FORMAT:RGB888", "\n", "DATA_START", "\n" >>

\* serial_send_image_end
ImageEndText == << "DATA_END", "\n", "<<<IMG_END>>>", "\n", "\n" >>

\* short press: run_single_capture up to the call of camera_utils_capture
ButtonShort ==
    /\ pc = "mode_select"
    /\ capture_count < MaxCaptures
    /\ mode' = "single"
    /\ capture_count' = capture_count + 1
    /\ sess' = NewSession
    /\ pc' = "cap_start"
    /\ UNCHANGED << cnn_time, cnn_pending, cnn_consumed, fifo_count,
                    fifo_status, load_i, fifo_words, wait_seen, run_state >>
    /\ UNCHANGED << camVars, resVars, codecVars >>
    /\ UNCHANGED extVars

\* long press: run_live_feed
ButtonLong ==
    /\ pc = "mode_select"
    /\ mode' = "live"
    /\ pc' = "lf_top"
    /\ UNCHANGED << capture_count, camVars, infVars, resVars, codecVars >>
    /\ UNCHANGED extVars

\* run_live_feed: the button ends the live feed
LiveExit ==
    /\ pc = "lf_top"
    /\ mode' = "none"
    /\ pc' = "mode_select"
    /\ UNCHANGED << capture_count, camVars, infVars, resVars, codecVars >>
    /\ UNCHANGED extVars

\* run_live_feed: next frame
LiveCapture ==
    /\ pc = "lf_top"
    /\ sess' = NewSession
    /\ pc' = "cap_start"
    /\ UNCHANGED << cnn_time, cnn_pending, cnn_consumed, fifo_count,
                    fifo_status, load_i, fifo_words, wait_seen, run_state >>
    /\ UNCHANGED << appVars, camVars, resVars, codecVars >>
    /\ UNCHANGED extVars

\* run_single_capture: halt on overflow, else inference_start
SingleAfterCapture ==
    /\ pc = "cap_ret"
    /\ mode = "single"
    /\ pc' = IF cam_ret = "CAM_STATUS_OVERFLOW" THEN "halt" ELSE "inf_reset"
    /\ UNCHANGED << appVars, camVars, infVars, resVars, codecVars >>
    /\ UNCHANGED extVars

\* run_live_feed: continue on overflow, else inference_start
LiveAfterCapture ==
    /\ pc = "cap_ret"
    /\ mode = "live"
    /\ pc' = IF cam_ret = "CAM_STATUS_OVERFLOW" THEN "lf_top" ELSE "inf_reset"
    /\ UNCHANGED << appVars, camVars, infVars, resVars, codecVars >>
    /\ UNCHANGED extVars

\* run_single_capture after inference_wait returned INFERENCE_OK: the
\* results, the RESULT block, the start of the image block and the call of
\* serial_stream_ppm
SingleReport ==
    /\ pc = "sc_report"
    /\ out' = << "\n", "*** PASS ***", "\n", "\n" >>
              \o PrintResultsText(result)
              \o << "Prediction: ", CLASS_NAMES[result.predicted_class + 1], " (" >>
              \o Dec(result.confidence_percent) \o << "% confidence)", "\n", "\n" >>
              \o CaptureInfoText(capture_count, CLASS_NAMES[result.predicted_class + 1],
                                 result.confidence_percent, result.inference_time_us)
              \o << "Streaming image to PC...", "\n" >>
              \o ImageStartText(IMAGE_SIZE_X, IMAGE_SIZE_Y, capture_count)
    /\ exp_fmt' = "ppm" /\ exp_w' = IMAGE_SIZE_X /\ exp_h' = IMAGE_SIZE_Y
    /\ exp_null' = FALSE
    /\ pc' = "exp_entry"
    /\ UNCHANGED << exp_ratio, exp_pat, exp_row, exp_col, triplet, triplet_idx,
                    line_len >>
    /\ UNCHANGED << appVars, camVars, infVars, resVars, codecVars, rndVars,
                    apiVars, srcVars >>

\* run_single_capture after serial_stream_ppm returned: the end of the image
\* block, and back to the menu
SingleImageEnd ==
    /\ pc = "exp_done" /\ mode = "single"
    /\ out' = out \o ImageEndText
                  \o << "Image sent! Use Python script to capture.", "\n" >>
    /\ mode' = "none"
    /\ pc' = "mode_select"
    /\ UNCHANGED << exp_fmt, exp_w, exp_h, exp_null, exp_ratio, exp_pat, exp_row,
                    exp_col, triplet, triplet_idx, line_len >>
    /\ UNCHANGED << capture_count, camVars, infVars, resVars, codecVars, rndVars,
                    apiVars, srcVars >>

\* run_live_feed: frame shown, delay, next iteration
LiveShow ==
    /\ pc = "lf_show"
    /\ pc' = "lf_top"
    /\ UNCHANGED << appVars, camVars, infVars, resVars, codecVars >>
    /\ UNCHANGED extVars

MainStep ==
    \/ ButtonShort
    \/ ButtonLong
    \/ LiveExit
    \/ LiveCapture
    \/ SingleAfterCapture
    \/ LiveAfterCapture
    \/ SingleReport
    \/ SingleImageEnd
    \/ LiveShow

Init ==
    /\ pc = "mode_select"
    /\ mode = "none"
    /\ capture_count = 0
    /\ InitCamera(IMAGE_SIZE_X, IMAGE_SIZE_Y, INPUT_WORDS, DATA565_SIZE, FALSE)
    /\ InitInference /\ InitResult /\ InitCodec /\ InitExt

\* serial_stream_ppm as called by run_single_capture
StreamStep == PpmEntry \/ PpmPixel \/ PpmRowEnd \/ PpmReturn

Next == MainStep \/ CaptureStep \/ InferenceStep \/ StreamStep

Spec == Init /\ [][Next]_vars


\* the scheduling the hardware guarantees: the core executes its next
\* instruction, the accelerator drains the FIFO and signals completion;
\* nothing guarantees an unrelated interrupt
FairSpec ==
    /\ Spec
    /\ WF_vars(LoadPoll) /\ WF_vars(LoadWrite) /\ WF_vars(CnnConsume)
    /\ WF_vars(CnnIsr) /\ WF_vars(WaitTest) /\ WF_vars(Wfi)
    /\ WF_vars(WaitUnload)

(***************************************************************************)
(* A capture followed by the plain-text export of the captured buffer, as  *)
(* run_single_capture does, for every frame the camera may deliver.        *)
(***************************************************************************)
\* serial_stream_ppm over the buffer camera_utils_capture filled; the
\* exporter reads width * height words, so only a frame the buffer holds
\* entirely is exported
RoundTripExport ==
    /\ pc = "cap_ret" /\ mode = "roundtrip"
    /\ cam_ret = "CAM_STATUS_OK"
    /\ w * h <= cnn_buffer_size
    /\ exp_fmt' = "ppm" /\ exp_w' = w /\ exp_h' = h /\ exp_null' = FALSE
    /\ out' = << >>
    /\ pc' = "exp_entry"
    /\ UNCHANGED << exp_ratio, exp_pat, exp_row, exp_col, triplet, triplet_idx,
                    line_len >>
    /\ UNCHANGED << appVars, camVars, infVars, resVars, codecVars, rndVars,
                    apiVars, srcVars >>

InitRoundTrip ==
    /\ pc = "cap_start"
    /\ mode = "roundtrip"
    /\ capture_count = 0
    /\ \E cw \in 0..MaxW, ch \in 0..MaxH, cs \in 0..(MaxW * MaxH) :
          InitCamera(cw, ch, cs, 0, TRUE)
    /\ InitInference /\ InitResult /\ InitCodec /\ InitExt

NextRoundTrip ==
    \/ CaptureStep
    \/ RoundTripExport
    \/ PpmEntry \/ PpmPixel \/ PpmRowEnd \/ PpmReturn

SpecRoundTrip == InitRoundTrip /\ [][NextRoundTrip]_vars

(***************************************************************************)
(* The session interface on its own: a caller that starts runs one at a   *)
(* time and may call inference_wait at any point between them.             *)
(***************************************************************************)
RunInFlight == run_state = "started"

\* the caller calls inference_start(), one run at a time
ApiStart ==
    /\ pc = "api_idle"
    /\ ~RunInFlight
    /\ sess' = NewSession
    /\ pc' = "inf_reset"
    /\ UNCHANGED << cnn_time, cnn_pending, cnn_consumed, fifo_count,
                    fifo_status, load_i, fifo_words, wait_seen, run_state >>
    /\ UNCHANGED << appVars, camVars, resVars, codecVars, extVars >>

\* the caller calls inference_load_input(input_buffer, INPUT_WORDS), once
\* per run
ApiLoad ==
    /\ pc = "api_idle"
    /\ sess.loaded = 0
    /\ load_i' = 0 /\ fifo_words' = << >> /\ fifo_status' = NoStatus
    /\ pc' = "load_poll"
    /\ UNCHANGED << cnn_time, cnn_pending, cnn_consumed, fifo_count,
                    wait_seen, sess, run_state >>
    /\ UNCHANGED << appVars, camVars, resVars, codecVars, extVars >>

ResultIsNullNever(isnull) == FALSE

ResultIsNull(isnull) == isnull

\* the caller calls inference_wait(result); result may be NULL
ApiWait ==
    /\ pc = "api_idle"
    /\ \E rn \in BOOLEAN : api_call' = [fn |-> "inference_wait", result_null |-> rn]
    /\ wait_had_run' = RunInFlight
    /\ inf_ret' = "NONE"
    /\ pc' = "wait_entry"
    /\ UNCHANGED << appVars, camVars, infVars, resVars, codecVars, expVars,
                    rndVars, srcVars >>

\* inference_wait: the test of result against NULL
WaitEntry ==
    /\ pc = "wait_entry"
    /\ IF ResultIsNull(api_call.result_null)
       THEN inf_ret' = "INFERENCE_ERROR" /\ pc' = "api_idle"
       ELSE inf_ret' = inf_ret /\ pc' = "wait_test"
    /\ UNCHANGED << wait_had_run, api_call >>
    /\ UNCHANGED << appVars, camVars, infVars, resVars, codecVars, expVars,
                    rndVars, srcVars >>

\* the caller calls inference_run(result), one run at a time; result may be
\* NULL
ApiRun ==
    /\ pc = "api_idle"
    /\ ~RunInFlight
    /\ \E rn \in BOOLEAN : api_call' = [fn |-> "inference_run", result_null |-> rn]
    /\ inf_ret' = "NONE"
    /\ pc' = "run_entry"
    /\ UNCHANGED wait_had_run
    /\ UNCHANGED << appVars, camVars, infVars, resVars, codecVars, expVars,
                    rndVars, srcVars >>

\* inference_run: the test of result against NULL, then inference_start()
\* followed by inference_wait(result)
RunEntry ==
    /\ pc = "run_entry"
    /\ IF ResultIsNull(api_call.result_null)
       THEN /\ inf_ret' = "INFERENCE_ERROR" /\ pc' = "api_idle"
            /\ UNCHANGED << sess, wait_had_run >>
       ELSE /\ inf_ret' = inf_ret /\ pc' = "inf_reset"
            /\ sess' = NewSession
            /\ wait_had_run' = TRUE
    /\ UNCHANGED << cnn_time, cnn_pending, cnn_consumed, fifo_count,
                    fifo_status, load_i, fifo_words, wait_seen, run_state >>
    /\ UNCHANGED api_call
    /\ UNCHANGED << appVars, camVars, resVars, codecVars, expVars, rndVars,
                    srcVars >>

InitSession ==
    /\ pc = "api_idle"
    /\ mode = "api"
    /\ capture_count = 0
    /\ InitCamera(0, 0, INPUT_WORDS, 0, TRUE)
    /\ InitInference /\ InitResult /\ InitCodec /\ InitExt

NextSession ==
    \/ ApiStart \/ ApiLoad
    \/ ApiWait \/ WaitEntry
    \/ ApiRun \/ RunEntry
    \/ InferenceStep

SpecSession == InitSession /\ [][NextSession]_vars

(***************************************************************************)
(* Properties.                                                             *)
(***************************************************************************)
InferencePcs ==
    {"inf_reset", "inf_cnn_start", "load_poll", "load_write", "wait_test",
     "wfi", "asleep", "wait_unload"}

Min(a, b) == IF a < b THEN a ELSE b

\* C1: a capture pass that ends with a non-zero overflow counter returns
\* CAM_STATUS_OVERFLOW, and neither mode issues the start signal or loads
\* the FIFO for that frame.
C1_OverflowNeverReachesInference ==
    /\ (pc = "cap_ret" /\ overflow_count # 0) => cam_ret = "CAM_STATUS_OVERFLOW"
    /\ overflow_count # 0 =>
           /\ pc \notin InferencePcs
           /\ ~sess.started
           /\ sess.loaded = 0

C1_Witness ==
    /\ overflow_count # 0
    /\ cam_ret = "CAM_STATUS_OVERFLOW"
    /\ \/ pc = "halt" /\ mode = "single"
       \/ pc = "lf_top" /\ mode = "live"

\* C2: whatever frame size the driver reports and whatever capacities are
\* declared, no store goes through cnn_buffer at an index >= cnn_buffer_size
\* or through rgb565_buffer at an offset >= rgb565_size; the pixels that do
\* not fit are dropped.
C2_WritesWithinCapacity ==
    /\ \A i \in cnn_writes : i < cnn_buffer_size
    /\ \A o \in rgb_writes : o < rgb565_size
    /\ cnt <= cnn_buffer_size
    /\ pc = "cap_ret" => cnt = Min(w * h, cnn_buffer_size)

C2_Witness ==
    /\ pc = "cap_ret"
    /\ cnn_buffer_size > 0
    /\ w * h > cnn_buffer_size
    /\ cnt = cnn_buffer_size
    /\ ~rgb565_null
    /\ 2 * w > rgb565_size
    /\ rgb_writes # {}

\* C3: unpacking the word packed from a byte triple (r, g, b) gives back
\* exactly (r, g, b).
C3_DecodeInvertsEncode == pc = "codec_done" => unpacked = px

C3_Witness == pc = "codec_done" /\ px = <<171, 18, 255>> /\ unpacked = px

\* C4: every word stored by the capture is the pixel's sample bytes packed
\* as B, G, R from high to low with bit 7 of each byte flipped, and its top
\* byte is 0.
C4_StoredWordIsPackedSample ==
    /\ pc = "cap_release" =>
           \A p \in 0..(cnt - row_cnt0 - 1) :
               input_buffer[row_cnt0 + p] =
                   ((line[4 * p + 3] + 128) % 256) * 65536
                   + ((line[4 * p + 2] + 128) % 256) * 256
                   + ((line[4 * p + 1] + 128) % 256)
    /\ \A i \in cnn_writes \cap DOMAIN input_buffer : input_buffer[i] < 16777216

C4_Witness ==
    /\ pc = "cap_release"
    /\ data = "BUF"
    /\ cnt > row_cnt0
    /\ line[1] = 255
    /\ input_buffer[row_cnt0] = 2855551

\* C5 as stated: every input word is pushed before the start signal, and
\* the outputs are unloaded only after completion was observed.
C5_LoadedBeforeStart ==
    /\ sess.started => sess.loaded = INPUT_WORDS
    /\ sess.unloaded => sess.observed

\* C5 amended: the start signal is issued before the first input word is
\* pushed, every input word is pushed before completion is observed, and
\* the outputs are unloaded only after completion was observed.
C5_StartLoadWaitUnload ==
    /\ sess.loaded > 0 => sess.started
    /\ sess.observed => sess.loaded = INPUT_WORDS
    /\ sess.unloaded => (sess.observed /\ sess.started /\ sess.loaded = INPUT_WORDS)

C5_Witness ==
    /\ pc \in {"sc_report", "lf_show"}
    /\ sess.unloaded
    /\ sess.loaded = INPUT_WORDS

\* C6: the FIFO register is written only right after a status read that
\* returned "not full", the FIFO never holds more than its depth, and the
\* words written are the first num_words words of the buffer in order.
C6_FifoNeverWrittenWhileFull ==
    /\ fifo_count <= FifoDepth
    /\ pc = "load_write" => (fifo_status = 0 /\ fifo_count < FifoDepth)
    /\ pc \in InferencePcs \ {"inf_reset", "inf_cnn_start"} =>
           /\ Len(fifo_words) = load_i
           /\ load_i <= INPUT_WORDS
           /\ \A k \in 1..Len(fifo_words) : fifo_words[k] = input_buffer[k - 1]
    /\ pc \in {"wait_test", "wfi", "asleep", "wait_unload"} =>
           Len(fifo_words) = INPUT_WORDS

C6_Witness ==
    /\ pc = "wait_test"
    /\ Len(fifo_words) = INPUT_WORDS
    /\ fifo_count = FifoDepth
    /\ fifo_words[1] # fifo_words[INPUT_WORDS]

\* C7: once inference_wait tests the flag after a start, a single
\* completion notification, whenever it comes and with or without other
\* wake-ups, makes the wait leave its loop.
C7_WaitEventuallyReturns == (pc = "wait_test") ~> (pc = "wait_unload")

\* C8: at most one accelerator run is pending; each start signal is issued
\* with the flag at 0, no run in flight, and the previous run's completion
\* observed by inference_wait.
C8_OneRunPending ==
    /\ cnn_pending <= 1
    /\ pc = "inf_cnn_start" =>
           (cnn_time = 0 /\ cnn_pending = 0 /\ run_state # "started")

C8_Witness == pc = "inf_cnn_start" /\ run_state = "observed"

\* C9: predicted_class is the lowest index that holds the maximum of the
\* probability vector.
C9_LowestIndexOfMaximum ==
    result.filled =>
        /\ \A i \in 0..(CNN_NUM_OUTPUTS - 1) :
               result.softmax[i] <= result.softmax[result.predicted_class]
        /\ \A i \in 0..(result.predicted_class - 1) :
               result.softmax[i] < result.softmax[result.predicted_class]

C9_Witness ==
    /\ result.filled
    /\ result.softmax[0] = result.softmax[1]
    /\ result.softmax[0] > 0
    /\ result.predicted_class = 0

LargerWinnerOnly(a, b) ==
    /\ a.filled /\ b.filled
    /\ a.predicted_class = b.predicted_class
    /\ \A i \in 0..(CNN_NUM_OUTPUTS - 1) :
           i # a.predicted_class => a.softmax[i] = b.softmax[i]
    /\ a.softmax[a.predicted_class] <= b.softmax[b.predicted_class]

\* C10: confidence_percent is floor(v * 100 / 32768) of the winning
\* probability v, lies in 0..100, and does not decrease when only the
\* winning value grows.
C10_ConfidenceMonotonic ==
    /\ result.filled =>
           LET v == result.softmax[result.predicted_class]
               c == result.confidence_percent
           IN  /\ c \in 0..100
               /\ c * 32768 <= v * 100
               /\ v * 100 < (c + 1) * 32768
    /\ LargerWinnerOnly(prev_result, result) =>
           prev_result.confidence_percent <= result.confidence_percent

C10_Witness ==
    /\ LargerWinnerOnly(prev_result, result)
    /\ prev_result.softmax[0] = 16384
    /\ result.softmax[0] = 32767
    /\ result.confidence_percent = 99
    /\ prev_result.confidence_percent = 50

\* C11: for every Q15 value of the winning class, the integer part printed
\* by the rounding path and the percentage of the arg-max path differ by at
\* most one.
C11_RoundingPathsWithinOne ==
    pc = "round_done" =>
        LET d == printed[result.predicted_class].digs - result.confidence_percent
        IN  d \in {0 - 1, 0, 1}

C11_Witness ==
    /\ pc = "round_done"
    /\ result.softmax[0] = 32767
    /\ printed[0].digs = 100
    /\ result.confidence_percent = 99

(***************************************************************************)
(* Reference renderings the console text is compared with.                 *)
(***************************************************************************)
DigitsOf(n) == IF n < 10 THEN 1 ELSE IF n < 100 THEN 2 ELSE 3

DecimalOf(n) ==
    IF n < 10 THEN << DecDigits[n + 1] >>
    ELSE IF n < 100 THEN << DecDigits[(n \div 10) + 1], DecDigits[(n % 10) + 1] >>
    ELSE << DecDigits[(n \div 100) + 1], DecDigits[((n \div 10) % 10) + 1],
            DecDigits[(n % 10) + 1] >>

NoBreaks(s) == SelectSeq(s, LAMBDA t : t # "\n")

ExportDone(f) == pc = "exp_done" /\ exp_fmt = f /\ ~exp_null

\* standard base64 of one 3-byte group, by the value of its 24 bits
RefGroup(p) ==
    LET n == p[1] * 65536 + p[2] * 256 + p[3]
    IN  << base64_table[(n \div 262144) + 1],
           base64_table[((n \div 4096) % 64) + 1],
           base64_table[((n \div 64) % 64) + 1],
           base64_table[(n % 64) + 1] >>

RECURSIVE RefB64Body(_, _)
RefB64Body(pat, n) ==
    IF n = 0 THEN << >>
    ELSE RefB64Body(pat, n - 1) \o RefGroup(PatPixel(pat, n - 1))

B64HeaderLen == 5 + DigitsOf(exp_w) + DigitsOf(exp_h)

B64Body == SubSeq(out, B64HeaderLen + 1, Len(out) - 3)

\* C12: the body of serial_stream_base64, line breaks ignored, is the
\* standard base64 encoding of the bytes R,G,B of every pixel in row-major
\* order: four alphabet characters per pixel and no padding.
C12_Base64BodyIsStandard ==
    ExportDone("base64") =>
        /\ NoBreaks(B64Body) = RefB64Body(exp_pat, exp_w * exp_h)
        /\ Len(NoBreaks(B64Body)) = 4 * exp_w * exp_h
        /\ \A i \in 1..Len(B64Body) : B64Body[i] # "="

C12_Witness ==
    /\ ExportDone("base64")
    /\ exp_w = 1 /\ exp_h = 1 /\ exp_pat = 0
    /\ B64Body = << "/", "w", "C", "A" >>

\* C13: in the body of serial_stream_base64 a line break follows every 76
\* characters and stands nowhere else, so every line before the last has
\* exactly 76 characters and none is longer; after the body come a newline
\* and the end-marker line.
C13_Base64LineBreaks ==
    ExportDone("base64") =>
        /\ \A i \in 1..Len(B64Body) : (B64Body[i] = "\n") <=> (i % 77 = 0)
        /\ Len(out) >= B64HeaderLen + 3
        /\ SubSeq(out, Len(out) - 2, Len(out))
               = << "\n", "<<<BASE64_IMG_END>>>", "\n" >>

C13_Witness ==
    /\ ExportDone("base64")
    /\ exp_w = 19 /\ exp_h = 2
    /\ Len(B64Body) = 154
    /\ B64Body[77] = "\n" /\ B64Body[154] = "\n"

HexHeaderLen == 5 + DigitsOf(exp_w) + DigitsOf(exp_h)

UpperHex == { "0", "1", "2", "3", "4", "5", "6", "7", "8", "9",
              "A", "B", "C", "D", "E", "F" }

HexValue(c) == CHOOSE i \in 0..15 : HexDigits[i + 1] = c

\* C14: serial_stream_hex writes the opening banner, the Size line, one
\* line per row holding for each pixel in column order two uppercase hex
\* digits for each of R, G, B, and the closing banner.
C14_HexRows ==
    ExportDone("hex") =>
        LET rowLen == 6 * exp_w + 1
            base   == HexHeaderLen
        IN  /\ Len(out) = base + exp_h * rowLen + 2
            /\ SubSeq(out, 1, base)
                   = << "=== HEX IMAGE DATA ===", "\n", "Size: " >>
                     \o DecimalOf(exp_w) \o << "x" >> \o DecimalOf(exp_h)
                     \o << "\n" >>
            /\ \A r \in 0..(exp_h - 1) :
                   /\ out[base + r * rowLen + rowLen] = "\n"
                   /\ \A c \in 0..(exp_w - 1), k \in 0..2 :
                          LET pos == base + r * rowLen + 6 * c + 2 * k
                          IN  /\ out[pos + 1] \in UpperHex
                              /\ out[pos + 2] \in UpperHex
                              /\ 16 * HexValue(out[pos + 1]) + HexValue(out[pos + 2])
                                     = PatPixel(exp_pat, r * exp_w + c)[k + 1]
            /\ SubSeq(out, Len(out) - 1, Len(out))
                   = << "=== END HEX DATA ===", "\n" >>

C14_Witness ==
    /\ ExportDone("hex")
    /\ exp_w = 1 /\ exp_h = 1 /\ exp_pat = 1
    /\ SubSeq(out, HexHeaderLen + 1, HexHeaderLen + 7)
           = << "A", "B", "1", "2", "F", "F", "\n" >>

RefTriple(p) ==
    DecimalOf(p[1]) \o << " " >> \o DecimalOf(p[2]) \o << " " >>
        \o DecimalOf(p[3]) \o << " " >>

\* the first n pixels of row r, a line break after every 8th of them
RECURSIVE RefPpmRow(_, _, _, _)
RefPpmRow(pat, width, r, n) ==
    IF n = 0 THEN << >>
    ELSE RefPpmRow(pat, width, r, n - 1)
             \o RefTriple(PatPixel(pat, r * width + (n - 1)))
             \o (IF n % 8 = 0 THEN << "\n" >> ELSE << >>)

RECURSIVE RefPpmRows(_, _, _)
RefPpmRows(pat, width, n) ==
    IF n = 0 THEN << >>
    ELSE RefPpmRows(pat, width, n - 1)
             \o RefPpmRow(pat, width, n - 1, width) \o << "\n" >>

\* C15: serial_stream_ppm writes the four header lines and then the
\* decimals R G B of every pixel in row-major order, with a line break
\* after every 8th pixel of a row and after the last pixel of each row.
C15_PpmText ==
    ExportDone("ppm") =>
        out = << "P3", "\n", "# Captured from MAX78000 CNN", "\n" >>
              \o DecimalOf(exp_w) \o << " " >> \o DecimalOf(exp_h)
              \o << "\n", "255", "\n" >>
              \o RefPpmRows(exp_pat, exp_w, exp_h)

C15_Witness ==
    /\ ExportDone("ppm")
    /\ exp_w = 8 /\ exp_h = 1 /\ exp_pat = 0
    /\ Len(out) = 92
    /\ out[90] = " " /\ out[91] = "\n" /\ out[92] = "\n"

RefLuma(p) == (77 * p[1] + 150 * p[2] + 29 * p[3]) \div 256

\* the rows and columns the preview samples with ratio 1
SampledRows == { y \in 0..(exp_h - 1) : y % 2 = 0 }

\* C18: the ASCII preview with ratio 1 prints, for a sampled pixel of
\* luminance 0, the first character of the 10-glyph ramp (the densest) and,
\* for a sampled pixel of luminance 255, its last character (the space).
C18_BlackDensestWhiteSpace ==
    ExportDone("ascii") /\ exp_ratio = 1 =>
        \A y \in SampledRows, x \in 0..(exp_w - 1) :
            LET lum   == RefLuma(PatPixel(exp_pat, y * exp_w + x))
                glyph == out[(y \div 2) * (exp_w + 1) + x + 1]
            IN  /\ (lum = 0 => glyph = BRIGHTNESS_STANDARD[1])
                /\ (lum = 255 => glyph = BRIGHTNESS_STANDARD[10])

\* C20: serial_stream_ppm, serial_stream_hex and serial_stream_base64
\* called with a NULL buffer write nothing, whatever the width and height.
C20_NullBufferWritesNothing ==
    InExport /\ exp_null /\ exp_fmt \in {"ppm", "hex", "base64"} => out = << >>

C20_Witness ==
    /\ pc = "exp_done"
    /\ exp_null /\ exp_fmt = "base64"
    /\ exp_w = MaxExpW /\ exp_h = MaxExpH
    /\ out = << >>

DigitValue(c) == CHOOSE d \in 0..9 : DecDigits[d + 1] = c

IsDigit(c) == \E d \in 0..9 : DecDigits[d + 1] = c

\* the numbers written in s from position i on; cur is the number being
\* read, NoStatus between numbers
RECURSIVE ParseNums(_, _, _, _)
ParseNums(s, i, cur, acc) ==
    IF i > Len(s)
    THEN IF cur >= 0 THEN Append(acc, cur) ELSE acc
    ELSE IF IsDigit(s[i])
         THEN ParseNums(s, i + 1, (IF cur < 0 THEN 0 ELSE cur) * 10 + DigitValue(s[i]), acc)
         ELSE ParseNums(s, i + 1, NoStatus, IF cur >= 0 THEN Append(acc, cur) ELSE acc)

PpmHeaderLen == 8 + DigitsOf(exp_w) + DigitsOf(exp_h)

PrintedNums == ParseNums(out, PpmHeaderLen + 1, NoStatus, << >>)

\* the channel bytes the camera delivered for pixel (r, c)
SourcePixel(r, c) ==
    << src_frame[r + 1][4 * c + 1], src_frame[r + 1][4 * c + 2],
       src_frame[r + 1][4 * c + 3] >>

RoundTripDone ==
    /\ pc = "exp_done" /\ mode = "roundtrip"
    /\ cam_ret = "CAM_STATUS_OK"
    /\ w * h <= cnn_buffer_size
    /\ null_rows = 0

\* C16: when the camera delivered every row of a frame that fits the
\* accelerator buffer and reported no overflow, the triples serial_stream_ppm
\* prints over the captured buffer are, pixel for pixel in row-major order,
\* the channel bytes the camera delivered.
C16_RoundTrip ==
    RoundTripDone =>
        \E nums \in { PrintedNums } :
            /\ Len(nums) = 3 * w * h
            /\ \A r \in 0..(h - 1), c \in 0..(w - 1) :
                   LET k == 3 * (r * w + c)
                   IN  << nums[k + 1], nums[k + 2], nums[k + 3] >> = SourcePixel(r, c)

C16_Witness ==
    /\ RoundTripDone
    /\ w = 2 /\ h = 2
    /\ SourcePixel(0, 0) = << 255, 18, 171 >>
    /\ SourcePixel(1, 1) = << 0, 0, 0 >>
    /\ SubSeq(out, PpmHeaderLen + 1, PpmHeaderLen + 11)
           = << "2", "5", "5", " ", "1", "8", " ", "1", "7", "1", " " >>

\* the 16-bit display word: top 5 bits of R, top 6 bits of G, top 5 bits of B
RefRgb565(p) == (p[1] \div 8) * 2048 + (p[2] \div 4) * 32 + (p[3] \div 8)

\* C17: after a capture with a display buffer, every pixel (r, c) whose two
\* bytes fit the declared capacity is found at offset 2*(r*w+c) of the
\* display buffer as its RGB565 word, high byte first.
C17_DisplayHoldsFrame ==
    pc = "cap_ret" /\ ~rgb565_null /\ null_rows = 0 =>
        \A r \in 0..(h - 1), c \in 0..(w - 1) :
            LET pos  == 2 * (r * w + c)
                word == RefRgb565(SourcePixel(r, c))
            IN  pos + 1 < rgb565_size =>
                    /\ data565[pos] = word \div 256
                    /\ data565[pos + 1] = word % 256

\* C19: a call of inference_wait made while no run is in flight returns an
\* error status; it does not return INFERENCE_OK.
C19_WaitWithoutRunIsError ==
    mode = "api" /\ pc = "api_idle" /\ inf_ret # "NONE" /\ ~wait_had_run
        => inf_ret = "INFERENCE_ERROR"

\* C21: serial_stream_ppm, serial_stream_hex and serial_stream_base64
\* called with a buffer and a frame of width 0 or height 0 write nothing:
\* no header, banner, marker or pixel text.
C21_ZeroSizedWritesNothing ==
    /\ InExport /\ ~exp_null
    /\ exp_fmt \in {"ppm", "hex", "base64"}
    /\ (exp_w = 0 \/ exp_h = 0)
    => out = << >>

\* C22: camera_utils_capture called with a zero capacity for the
\* accelerator buffer stores nothing through that pointer and does not
\* return CAM_STATUS_OK.  (The routine never tests the pointer itself, so a
\* NULL buffer takes the same path as any other.)
C22_ZeroCapacityIsRejected ==
    pc = "cap_ret" /\ cnn_buffer_size = 0 =>
        /\ cnn_writes = {}
        /\ cam_ret # "CAM_STATUS_OK"

FirstIndex(s, t) == CHOOSE i \in 1..Len(s) : s[i] = t /\ \A j \in 1..(i - 1) : s[j] # t

Occurrences(s, t) == Cardinality({ i \in 1..Len(s) : s[i] = t })

BlockWords == { "<<<IMG_START>>>", "<<<IMG_END>>>", "<<<RESULT>>>", "WIDTH:",
                "HEIGHT:", "CAPTURE_ID:", "FORMAT:RGB888", "DATA_START",
                "DATA_END" }

\* the tokens a plain-text payload is made of
PayloadTokens ==
    { "P3", "# Captured from MAX78000 CNN", "255", " ", "\n" }
        \cup { DecDigits[d] : d \in 1..10 }

\* the report of a single-capture cycle is complete
CycleReported == pc = "mode_select" /\ out # << >>

ImageHeaderRef ==
    << "<<<IMG_START>>>", "\n", "WIDTH:" >> \o DecimalOf(IMAGE_SIZE_X)
        \o << "\n", "HEIGHT:" >> \o DecimalOf(IMAGE_SIZE_Y)
        \o << "\n", "CAPTURE_ID:" >> \o DecimalOf(capture_count)
        \o << "\n", "FORMAT:RGB888", "\n", "DATA_START", "\n" >>

\* C23: the console text of a single-capture cycle that completed inference
\* holds one image block: IMG_START, WIDTH, HEIGHT, CAPTURE_ID,
\* FORMAT:RGB888, DATA_START, the payload, DATA_END, IMG_END, in this order
\* and with nothing but payload text between DATA_START and DATA_END; the
\* RESULT block of the cycle carries the same CAPTURE_ID.
C23_ImageBlockSequence ==
    CycleReported =>
        /\ Occurrences(out, "<<<IMG_START>>>") = 1
        /\ Occurrences(out, "<<<IMG_END>>>") = 1
        /\ Occurrences(out, "DATA_START") = 1
        /\ Occurrences(out, "DATA_END") = 1
        /\ Occurrences(out, "<<<RESULT>>>") = 2
        /\ Occurrences(out, "CAPTURE_ID:") = 2
        /\ LET s  == FirstIndex(out, "<<<IMG_START>>>")
               d  == s + Len(ImageHeaderRef)
               e  == FirstIndex(out, "DATA_END")
               r  == FirstIndex(out, "<<<RESULT>>>")
               id == DecimalOf(capture_count)
           IN  /\ r < s
               /\ SubSeq(out, r, r + 2 + Len(id))
                      = << "<<<RESULT>>>", "\n", "CAPTURE_ID:" >> \o id
               /\ SubSeq(out, s, d - 1) = ImageHeaderRef
               /\ d < e
               /\ out[d] = "P3"
               /\ \A i \in d..(e - 1) : out[i] \in PayloadTokens
               /\ SubSeq(out, e, e + 3) = << "DATA_END", "\n", "<<<IMG_END>>>", "\n" >>

C23_Witness ==
    /\ CycleReported
    /\ capture_count = 1
    /\ result.filled
    /\ out[FirstIndex(out, "DATA_START") + 2] = "P3"
    /\ out[Len(out) - 1] = "Image sent! Use Python script to capture."

\* inference_wait has just returned INFERENCE_OK to the main loop
WaitReturned == pc \in {"sc_report", "lf_show"} /\ inf_ret = "INFERENCE_OK"

\* C24: when inference_wait returns INFERENCE_OK after an inference_start,
\* the recorded inference_time_us is not 0 and is the value the completion
\* interrupt wrote for this run.
C24_TimeIsThisRunsNotification ==
    WaitReturned /\ sess.started =>
        /\ result.inference_time_us # 0
        /\ result.inference_time_us = sess.notified

C24_Witness ==
    /\ WaitReturned /\ sess.started
    /\ mode = "live" /\ capture_count = 1
    /\ result.inference_time_us = MaxTime
    /\ sess.notified = MaxTime

\* C25: camera_utils_capture converts the pixels of a row only with a
\* stream buffer in hand: the line pointer is not NULL when the pixel loop
\* reads through it.
C25_NoReadThroughNull ==
    pc = "cap_convert" /\ w > 0 => data # "NULL"

\* rows for which the acquisition loop was left, and rows released
RowsRequested == Len(src_frame)

RowsReleased == row

\* C26: during camera_utils_capture the request of a line buffer and its
\* release alternate, once per scanline for exactly h scanlines: a row is
\* released once, after its pixels were converted and before the next row
\* is requested, and the overflow counter is read after the last release.
C26_AcquireReleaseAlternate ==
    /\ pc = "cap_acquire" => RowsRequested = RowsReleased /\ RowsReleased < h
    /\ pc \in {"cap_convert", "cap_release"} =>
           RowsRequested = RowsReleased + 1 /\ RowsReleased < h
    /\ pc = "cap_release" => cnt = Min(cnn_buffer_size, row_cnt0 + w)
    /\ pc \in {"cap_check", "cap_ret"} => RowsRequested = h /\ RowsReleased = h
    /\ pc \in {"cap_acquire", "cap_convert", "cap_release", "cap_check"} =>
           cam_ret = "NONE"

C26_Witness ==
    /\ pc = "cap_ret"
    /\ w = 2 /\ h = 2
    /\ RowsRequested = 2 /\ RowsReleased = 2
    /\ cnt = 3
    /\ cam_ret = "CAM_STATUS_OK"

\* C27: in serial_stream_base64 no byte is pending after a complete pixel,
\* for every width and height: triplet_idx is 0 between pixels and when the
\* loops end, so no '=' is ever written.
C27_NoPendingBytes ==
    exp_fmt = "base64" /\ pc \in {"exp_loop", "exp_done"} /\ ~exp_null =>
        /\ triplet_idx = 0
        /\ \A i \in 1..Len(out) : out[i] # "="

C27_Witness ==
    /\ ExportDone("base64")
    /\ exp_w = 5 /\ exp_h = 2 /\ exp_pat = 2
    /\ triplet_idx = 0
    /\ Len(NoBreaks(B64Body)) = 40

\* the packed word of a pixel: every channel byte moved by 128, B in bits
\* 16..23, G in bits 8..15, R in bits 0..7
RefWord(p) ==
    ((p[3] + 128) % 256) * 65536 + ((p[2] + 128) % 256) * 256 + ((p[1] + 128) % 256)

RowDelivered(r) == src_frame[r + 1] # << >>

\* C28: camera_utils_capture stores through cnn_buffer exactly at the
\* indices 0 .. min(w*h, cnn_buffer_size)-1, word i holding pixel
\* (i div w, i mod w), and leaves every word from index w*h on as it was
\* before the call.
C28_FrameEffect ==
    pc = "cap_ret" =>
        /\ cnn_writes = 0..(Min(w * h, cnn_buffer_size) - 1)
        /\ \A i \in cnn_writes :
               RowDelivered(i \div w) =>
                   input_buffer[i] = RefWord(SourcePixel(i \div w, i % w))
        /\ \A i \in DOMAIN input_buffer : i >= w * h => input_buffer[i] = 0

C28_Witness ==
    /\ pc = "cap_ret"
    /\ w = 1 /\ h = 2 /\ cnn_buffer_size = 3
    /\ null_rows = 0
    /\ cnn_writes = {0, 1}
    /\ input_buffer[0] = 2855551
    /\ input_buffer[1] = 8421504
    /\ input_buffer[2] = 0

\* the thread of control takes the step that follows the call of
\* inference_wait or inference_run with result == NULL
NullResultStep ==
    /\ pc \in {"wait_entry", "run_entry"}
    /\ api_call.result_null
    /\ pc' # pc

\* C29: inference_run and inference_wait called with result == NULL return
\* INFERENCE_ERROR at once and change nothing: the completion counter is
\* not reset, no run is started, nothing is unloaded into a result.
C29_NullResultIsError ==
    [][ NullResultStep =>
          /\ pc' = "api_idle"
          /\ inf_ret' = "INFERENCE_ERROR"
          /\ UNCHANGED << cnn_time, cnn_pending, cnn_consumed, fifo_count,
                          fifo_words, sess, run_state, result >> ]_vars

C29_Witness ==
    /\ pc = "api_idle"
    /\ api_call = [fn |-> "inference_run", result_null |-> TRUE]
    /\ inf_ret = "INFERENCE_ERROR"
    /\ cnn_time # 0 /\ cnn_pending = 0
    /\ result.filled

====
